---------------------------- MODULE Spec2Model ----------------------------
(***************************************************************************)
(* Echo state network of src/ResCom.py (classes ESN, AHESN, IPESN).        *)
(*                                                                         *)
(* The modelled object is one IPESN instance: it inherits every operation  *)
(* of ESN and AHESN.  Reals are fixed-point integers in units of 1/Scale.  *)
(* Python indices are kept: At(s, i) is s[i] of the source.                *)
(***************************************************************************)
EXTENDS Integers, Sequences, FiniteSets, TLC

(***************************************************************************)
(* Fixed-point arithmetic standing for numpy's float64.                    *)
(***************************************************************************)
Scale == 1000

Abs(x) == IF x < 0 THEN -x ELSE x

Sgn(x) == IF x < 0 THEN -1 ELSE 1

\* a / b rounded to the nearest integer (b # 0)
RDiv(x, y) == Sgn(x) * Sgn(y) * ((2 * Abs(x) + Abs(y)) \div (2 * Abs(y)))

Mul(x, y) == RDiv(x * y, Scale)

Div(x, y) == RDiv(x * Scale, y)

RECURSIVE SqrtIter(_, _, _)
SqrtIter(v, lo, hi) ==
    IF lo >= hi THEN lo
    ELSE LET mid == (lo + hi + 1) \div 2
         IN  IF mid * mid <= v THEN SqrtIter(v, mid, hi)
                               ELSE SqrtIter(v, lo, mid - 1)

\* floor of the square root of v >= 0
ISqrt(v) == SqrtIter(v, 0, 46340)

\* np.tanh: Pade approximant x(27 + x^2)/(27 + 9x^2), saturating at +-1
Tanh(x) ==
    IF x >= 3 * Scale THEN Scale
    ELSE IF x <= -3 * Scale THEN -Scale
    ELSE LET x2 == Mul(x, x)
         IN  RDiv(x * (27 * Scale + x2), 27 * Scale + 9 * x2)

(***************************************************************************)
(* Vectors and matrices: sequences, and sequences of rows.                 *)
(***************************************************************************)
\* the sequence f with its elements computed (arrays hold values, not thunks)
Vec(f) == f \o << >>

At(s, i) == s[i + 1]

Last(s) == s[Len(s)]

RECURSIVE SumSeq(_)
SumSeq(s) == IF s = << >> THEN 0 ELSE Head(s) + SumSeq(Tail(s))

Dot(v, w) == SumSeq(Vec([i \in 1..Len(v) |-> Mul(v[i], w[i])]))

\* M.dot(r)
MatVec(A, v) == Vec([i \in 1..Len(A) |-> Dot(A[i], v)])

\* c * A
ScaleMat(c, A) ==
    Vec([i \in 1..Len(A) |-> Vec([j \in 1..Len(A[i]) |-> Mul(c, A[i][j])])])

\* np.matmul(np.diag(g), A): row i of A times g[i]
DiagMul(g, A) ==
    Vec([i \in 1..Len(A) |-> Vec([j \in 1..Len(A[i]) |-> Mul(g[i], A[i][j])])])

\* (np.asarray([v]).T) @ np.asarray([w])
Outer(v, w) ==
    Vec([i \in 1..Len(v) |-> Vec([j \in 1..Len(w) |-> Mul(v[i], w[j])])])

MatSub(A, B) ==
    Vec([i \in 1..Len(A) |-> Vec([j \in 1..Len(A[i]) |-> A[i][j] - B[i][j]])])

VecAdd(v, w) == Vec([i \in 1..Len(v) |-> v[i] + w[i]])

\* np.linalg.norm(A, axis=0): the norm of every column
ColNorms(A) ==
    Vec([j \in 1..Len(A[1]) |->
            ISqrt(SumSeq(Vec([i \in 1..Len(A) |-> A[i][j] * A[i][j]])))])

\* abs(sp.linalg.eigs(A, 1, which='LM')[0]) of a 2 x 2 matrix: the roots of
\* x^2 - tr x + det, a real pair when the discriminant is >= 0
MaxEval(A) ==
    LET tr   == A[1][1] + A[2][2]
        det  == A[1][1] * A[2][2] - A[1][2] * A[2][1]
        disc == tr * tr - 4 * det
    IN  IF disc >= 0 THEN (Abs(tr) + ISqrt(disc)) \div 2
                     ELSE ISqrt(det)

(***************************************************************************)
(* Configuration (constructor arguments).                                  *)
(***************************************************************************)
N == 2

d == 1

\* gamma times the step of the time grid
gamma == 500

beta == 100

mu == 0

sd == 500

\* an absent value; every optional field holds a sequence
None == << >>

ZeroVec == Vec([i \in 1..N |-> 0])

Ones == Vec([i \in 1..N |-> Scale])


(***************************************************************************)
(* Inputs: the time grid 0, 1, .., TLen-1 and the data sets sampled on it. *)
(***************************************************************************)
TLen == 3

MaxEpochs == 2

MaxCalls == 2

Seeds == {1, 2}

DataIds == {1, 2}

\* data[k], a d-vector
DataRow(id, k) ==
    IF id = 1 THEN << 200 + 300 * (k % 3) >> ELSE << 400 * (k % 2) - 700 >>

RhoValues == {500, 1000}

SigmaValues == {1000}

\* (eta, nu) of the constructor
Rates == { <<0, 0>>, <<50, 20>> }

\* listen lengths: 0 <= t_listen < T - 1
ListenLengths == 0..(TLen - 2)

\* the adaptation calls are made on the first data set, with no washout or
\* with the longest one
AdaptData == {1}

AdaptListen == {0, TLen - 2}

VARIABLES
    seed,                   \* the random seed
    M_orig, W_in_orig,      \* raw matrices (M_orig already divided by max_eval)
    rho, sigma, M, W_in,    \* scaled matrices and their scalars
    W_out, u, r_T,          \* readout, driving function, post-training state
    M_dense, W_in_dense,    \* whether M / W_in is a dense np.matrix (else sparse csr)
    a, b,                   \* gain and bias (IPESN)
    eta, epochs, nu,        \* constructor arguments of AHESN / IPESN
    calls,                  \* number of calls made so far
    trained,                \* number of completed train calls
    last                    \* the most recent call: arguments, state before, what it did

vars == << seed, M_orig, W_in_orig, rho, sigma, M, W_in, M_dense, W_in_dense,
           W_out, u, r_T, a, b,
           eta, epochs, nu, calls, trained, last >>

(***************************************************************************)
(* RandomStructureFactory: the seeded draws, as a table over the seed.     *)
(***************************************************************************)
\* sp.random(N, N, p, data_rvs = uniform(-1, 1))
RawAdjacency(sd0) ==
    IF sd0 = 1 THEN << << 600, -300 >>, << 400, 500 >> >>
                ELSE << << 800, 200 >>, << 0, -500 >> >>

adj_matrix(sd0) ==
    LET Mraw     == RawAdjacency(sd0)
        max_eval == MaxEval(Mraw)
    IN  ScaleMat(Div(Scale, max_eval), Mraw)

\* one entry per row, column drawn from 0..d-1, value from uniform(-1, 1)
input_matrix(sd0) ==
    IF sd0 = 1 THEN << << 700 >>, << -400 >> >>
                ELSE << << -600 >>, << 900 >> >>

(***************************************************************************)
(* ScalingController: the rho and sigma setters.                           *)
(***************************************************************************)
rho_setter_stale(r) == ScaleMat(r, M)

\* self.M = rho * self.M_orig
rho_setter(r) == ScaleMat(r, M_orig)

\* self.W_in = sigma * self.W_in_orig
sigma_setter(s) == ScaleMat(s, W_in_orig)

(***************************************************************************)
(* StateDynamics.                                                          *)
(***************************************************************************)
\* q(r) = [r ; r**2]
q(r) ==
    Vec([i \in 1..(2 * N) |-> IF i <= N THEN r[i] ELSE Mul(r[i - N], r[i - N])])

\* the interpolant through the samples (s = 0): its value at grid time k
spline(id) == Vec([k \in 1..TLen |-> DataRow(id, k - 1)])

\* IPESN.f_LR at grid time k (gamma carries the grid step)
f_LR(r, k, Mx, Wx, ux, bx) ==
    Vec([i \in 1..N |->
            Mul(gamma, Tanh(Dot(Mx[i], r) + Dot(Wx[i], At(ux, k)) + bx[i]) - r[i])])

\* integrate.odeint(self.f_LR, r0, t): one explicit step per grid interval;
\* the trajectory has one state per grid point and starts at r0
RECURSIVE odeint_LR(_, _, _, _, _, _)
odeint_LR(traj, k, Mx, Wx, ux, bx) ==
    IF k >= TLen - 1 THEN traj
    ELSE LET r == Last(traj)
         IN  odeint_LR(Append(traj, VecAdd(r, f_LR(r, k, Mx, Wx, ux, bx))),
                       k + 1, Mx, Wx, ux, bx)

Listen(Mx, Wx, ux, bx) == odeint_LR(<< ZeroVec >>, 0, Mx, Wx, ux, bx)


(***************************************************************************)
(* ReadoutTrainer.                                                         *)
(***************************************************************************)
XColumnAhead(i, t_listen) == i - t_listen

\* the column of X that the loop body writes at index i
XColumn(i, t_listen) == i + 1 - t_listen

\* for i in range(t_listen, t.size - 1): X[:, i+1 - t_listen] = q(LR_traj[i+1])
\* X is kept by columns; src[c] is the trajectory index column c was
\* written from, -1 while the column holds its initial zeros
RECURSIVE train_loop(_, _, _, _)
train_loop(acc, i, t_listen, LR_traj) ==
    IF i >= TLen - 1 THEN acc
    ELSE LET c == XColumn(i, t_listen) + 1
         IN  train_loop([X   |-> [acc.X EXCEPT ![c] = q(At(LR_traj, i + 1))],
                         src |-> [acc.src EXCEPT ![c] = i + 1]],
                        i + 1, t_listen, LR_traj)

\* X = np.zeros((2N, t.size - t_listen)), then the loop
DesignMatrix(t_listen, LR_traj) ==
    train_loop([X   |-> Vec([c \in 1..(TLen - t_listen) |->
                                 Vec([k \in 1..(2 * N) |-> 0])]),
                src |-> Vec([c \in 1..(TLen - t_listen) |-> -1])],
               t_listen, t_listen, LR_traj)

\* Y = np.transpose(data[t_listen:]), by columns
TargetMatrix(id, t_listen) ==
    Vec([c \in 1..(TLen - t_listen) |-> DataRow(id, t_listen + c - 1)])

\* the data row each column of Y holds
TargetRows(t_listen) == Vec([c \in 1..(TLen - t_listen) |-> t_listen + c - 1])

train_W_out_none(X, Y) == None

\* M_1 = Y X^T and the matrix X X^T + beta I handed to np.linalg.inv;
\* W_out is their pair (the inverse itself is left to the library)
train_W_out(X, Y) ==
    << Vec([k \in 1..d |-> Vec([c \in 1..(2 * N) |->
            SumSeq(Vec([j \in 1..Len(X) |-> Mul(Y[j][k], X[j][c])]))])]),
       Vec([c \in 1..(2 * N) |-> Vec([e \in 1..(2 * N) |->
            SumSeq(Vec([j \in 1..Len(X) |-> Mul(X[j][c], X[j][e])]))
              + (IF c = e THEN beta ELSE 0)])]) >>

(***************************************************************************)
(* The record of a call.                                                   *)
(***************************************************************************)
\* the program state a call starts from
Snapshot ==
    [M |-> M, W_in |-> W_in, W_out |-> W_out, u |-> u, r_T |-> r_T,
     a |-> a, b |-> b, rho |-> rho, sigma |-> sigma]

NoArgs == [data |-> 0, t_listen |-> 0, flag |-> FALSE, mode |-> 0, ep |-> 0, val |-> 0]

NoObs ==
    [driver |-> None, traj |-> << >>, r0 |-> None, raised |-> FALSE,
     X |-> << >>, XIdx |-> << >>, YIdx |-> << >>,
     log |-> << >>, steps |-> << >>]

Call(op, args, obs) == [op |-> op, args |-> args, pre |-> Snapshot, obs |-> obs]

(***************************************************************************)
(* ESN.__init__ (through IPESN.__init__).                                  *)
(***************************************************************************)
rho0 == 900

sigma0 == 500

Init ==
    \E sd0 \in Seeds, rates \in Rates, ep \in 0..MaxEpochs :
        /\ seed = sd0
        /\ W_in_orig = input_matrix(sd0)
        /\ sigma = sigma0
        /\ W_in = ScaleMat(sigma0, input_matrix(sd0))
        /\ M_orig = adj_matrix(sd0)
        /\ rho = rho0
        /\ M = ScaleMat(rho0, adj_matrix(sd0))
        /\ M_dense = FALSE
        /\ W_in_dense = FALSE
        /\ W_out = None
        /\ u = None
        /\ r_T = None
        /\ eta = rates[1]
        /\ epochs = ep
        /\ nu = rates[2]
        /\ a = Ones
        /\ b = ZeroVec
        /\ calls = 0
        /\ trained = 0
        /\ last = [op |-> "init", args |-> NoArgs,
                   pre |-> [M |-> ScaleMat(rho0, adj_matrix(sd0)),
                            W_in |-> ScaleMat(sigma0, input_matrix(sd0)),
                            W_out |-> None, u |-> None, r_T |-> None,
                            a |-> Ones, b |-> ZeroVec, rho |-> rho0, sigma |-> sigma0],
                   obs |-> NoObs]

(***************************************************************************)
(* Operations of ESN.                                                      *)
(***************************************************************************)
set_rho(r) ==
    /\ calls < MaxCalls
    /\ rho' = r
    /\ M' = rho_setter(r)
    /\ M_dense' = FALSE
    /\ last' = Call("set_rho", [NoArgs EXCEPT !.val = r], NoObs)
    /\ calls' = calls + 1
    /\ UNCHANGED << seed, M_orig, W_in_orig, sigma, W_in, W_in_dense, W_out, u, r_T,
                    a, b, eta, epochs, nu, trained >>

set_sigma(s) ==
    /\ calls < MaxCalls
    /\ sigma' = s
    /\ W_in' = sigma_setter(s)
    /\ W_in_dense' = FALSE
    /\ last' = Call("set_sigma", [NoArgs EXCEPT !.val = s], NoObs)
    /\ calls' = calls + 1
    /\ UNCHANGED << seed, M_orig, W_in_orig, rho, M, M_dense, W_out, u, r_T, a, b,
                    eta, epochs, nu, trained >>

\* the driving function train integrates with
train_driver(id) == IF u = None THEN spline(id) ELSE u

\* (\E v \in {e} : .. binds v to the value of e, computed once)
train(id, t_listen) ==
    /\ calls < MaxCalls
    /\ \E uu \in {train_driver(id)} :
       \E LR_traj \in {Listen(M, W_in, uu, b)} :
       \E XX \in {DesignMatrix(t_listen, LR_traj)} :
           /\ u' = uu
           /\ W_out' = train_W_out(XX.X, TargetMatrix(id, t_listen))
           /\ r_T' = Last(LR_traj)
           /\ trained' = trained + 1
           /\ last' = Call("train", [NoArgs EXCEPT !.data = id, !.t_listen = t_listen],
                           [NoObs EXCEPT !.driver = uu, !.traj = LR_traj,
                                         !.X = XX.X, !.XIdx = XX.src,
                                         !.YIdx = TargetRows(t_listen)])
           /\ calls' = calls + 1
           /\ UNCHANGED << seed, M_orig, W_in_orig, rho, sigma, M, W_in, M_dense,
                           W_in_dense, a, b, eta, epochs, nu >>

predict_start_zero(id) == ZeroVec

\* the state the predicting-regime integration starts from; id = 0: no data
predict_start(id) ==
    IF id = 0 THEN r_T ELSE Last(Listen(M, W_in, spline(id), b))

\* without data and before any training odeint gets r_T = None and raises
\* with nothing changed; with data, self.u is assigned before f_PR raises
predict(id) ==
    /\ calls < MaxCalls
    /\ \E r0 \in {predict_start(id)} :
           /\ id = 0 => W_out # None
           /\ u' = IF id = 0 THEN u ELSE spline(id)
           /\ last' = Call("predict", [NoArgs EXCEPT !.data = id],
                           [NoObs EXCEPT !.driver = IF id = 0 THEN None ELSE spline(id),
                                         !.r0 = r0,
                                         !.raised = (W_out = None)])
           /\ calls' = calls + 1
           /\ UNCHANGED << seed, M_orig, W_in_orig, rho, sigma, M, W_in, M_dense,
                           W_in_dense, W_out, r_T, a, b, eta, epochs, nu, trained >>

(***************************************************************************)
(* AdaptationEngine: operations of AHESN.                                  *)
(***************************************************************************)
\* range(t_listen, data.shape[0] - 1) has this many elements
StepsPerEpoch(t_listen) == TLen - 1 - t_listen

\* eta * outer(x[t+1], x[t])
HebbTerm(x, t) == ScaleMat(eta, Outer(At(x, t + 1), At(x, t)))

\* the two nested loops of hebb_learn, s counting the passes of the inner body
RECURSIVE hebb_loop(_, _, _, _)
hebb_loop(Mloc, s, t_listen, x) ==
    IF s >= epochs * StepsPerEpoch(t_listen) THEN Mloc
    ELSE LET t == t_listen + (s % StepsPerEpoch(t_listen))
         IN  hebb_loop(MatSub(Mloc, HebbTerm(x, t)), s + 1, t_listen, x)

\* hebb_learn starts from M_orig whatever rescale is, and ends with rho * M
hebb_learn(id, t_listen, rescale) ==
    /\ calls < MaxCalls
    /\ \E M1 \in {IF rescale THEN rho_setter(rho) ELSE M} :
       \E x \in {Listen(M1, W_in, spline(id), b)} :
           /\ u' = spline(id)
           /\ M' = ScaleMat(rho, hebb_loop(M_orig, 0, t_listen, x))
           /\ M_dense' = FALSE
           /\ last' = Call("hebb_learn",
                           [NoArgs EXCEPT !.data = id, !.t_listen = t_listen,
                                          !.flag = rescale],
                           [NoObs EXCEPT !.driver = spline(id), !.traj = x])
           /\ calls' = calls + 1
           /\ UNCHANGED << seed, M_orig, W_in_orig, rho, sigma, W_in, W_in_dense, W_out,
                           r_T, a, b, eta, epochs, nu, trained >>

\* (self.rho / max_eval) * M
Renormalize(Mx) == ScaleMat(Div(rho, MaxEval(Mx)), Mx)

renorm_in_loop_never(scale_M) == FALSE

\* the test that guards the renormalization inside the inner loop
renorm_in_loop(scale_M) == scale_M = 2

\* the nested loops of hebb_learn_vector; log lists, in order, each
\* outer-product update and each renormalization with its epoch
RECURSIVE hebb_vector_loop(_, _, _, _, _)
hebb_vector_loop(acc, s, t_listen, x, scale_M) ==
    IF s >= epochs * StepsPerEpoch(t_listen) THEN acc
    ELSE LET e  == s \div StepsPerEpoch(t_listen)
             t  == t_listen + (s % StepsPerEpoch(t_listen))
             M2 == MatSub(acc.M, HebbTerm(x, t))
             l2 == Append(acc.log, [k |-> "update", e |-> e])
         IN  hebb_vector_loop(
                 IF renorm_in_loop(scale_M)
                     THEN [M |-> Renormalize(M2),
                           log |-> Append(l2, [k |-> "renorm", e |-> e])]
                     ELSE [M |-> M2, log |-> l2],
                 s + 1, t_listen, x, scale_M)

\* the branch after the loops
hebb_vector_end(acc, scale_M) ==
    IF scale_M = 1
        THEN [M |-> Renormalize(acc.M),
              log |-> Append(acc.log, [k |-> "renorm", e |-> epochs])]
        ELSE acc

\* the representation self.M ends in: modes 0 and 1 cast to csr; mode 2
\* stores M as the loop left it, dense once an update has been subtracted
hebb_vector_dense(dense0, t_listen, scale_M) ==
    /\ scale_M = 2
    /\ dense0 \/ epochs * StepsPerEpoch(t_listen) > 0

hebb_learn_vector(id, t_listen, reset_M, scale_M) ==
    /\ calls < MaxCalls
    /\ \E M1 \in {IF reset_M THEN rho_setter(rho) ELSE M} :
       \E x \in {Listen(M1, W_in, spline(id), b)} :
       \E res \in {hebb_vector_end(
                      hebb_vector_loop([M |-> M1, log |-> << >>], 0, t_listen, x,
                                       scale_M),
                      scale_M)} :
           /\ u' = spline(id)
           /\ M' = res.M
           /\ M_dense' = hebb_vector_dense(IF reset_M THEN FALSE ELSE M_dense,
                                           t_listen, scale_M)
           /\ last' = Call("hebb_learn_vector",
                           [NoArgs EXCEPT !.data = id, !.t_listen = t_listen,
                                          !.flag = reset_M, !.mode = scale_M],
                           [NoObs EXCEPT !.driver = spline(id), !.traj = x,
                                         !.log = res.log])
           /\ calls' = calls + 1
           /\ UNCHANGED << seed, M_orig, W_in_orig, rho, sigma, W_in, W_in_dense, W_out,
                           r_T, a, b, eta, epochs, nu, trained >>

\* np.diag(1 / np.linalg.norm(M_hat, axis=0)) @ M_hat
InvNorms(norms) == Vec([j \in 1..Len(norms) |-> Div(Scale, norms[j])])

norm_step(M_hat) == DiagMul(InvNorms(ColNorms(M_hat)), M_hat)

\* one pass of the inner loop body, given M_hat
norm_hebb_body(acc, M_hat) ==
    [M     |-> norm_step(M_hat),
     steps |-> Append(acc.steps, [M_hat |-> M_hat, M |-> norm_step(M_hat)])]

\* the nested loops of norm_hebb_learn; steps lists each (M_hat, next M)
RECURSIVE norm_hebb_loop(_, _, _, _)
norm_hebb_loop(acc, s, t_listen, x) ==
    IF s >= epochs * StepsPerEpoch(t_listen) THEN acc
    ELSE LET t == t_listen + (s % StepsPerEpoch(t_listen))
         IN  norm_hebb_loop(
                 norm_hebb_body(acc, MatSub(acc.M, HebbTerm(x, t))),
                 s + 1, t_listen, x)

norm_hebb_learn(id, t_listen, reset_M) ==
    /\ calls < MaxCalls
    /\ \E M1 \in {IF reset_M THEN rho_setter(rho) ELSE M} :
       \E x \in {Listen(M1, W_in, spline(id), b)} :
       \E res \in {norm_hebb_loop([M |-> M_orig, steps |-> << >>], 0, t_listen, x)} :
           /\ u' = spline(id)
           /\ M' = ScaleMat(rho, res.M)
           /\ M_dense' = FALSE
           /\ last' = Call("norm_hebb_learn",
                           [NoArgs EXCEPT !.data = id, !.t_listen = t_listen,
                                          !.flag = reset_M],
                           [NoObs EXCEPT !.driver = spline(id), !.traj = x,
                                         !.steps = res.steps])
           /\ calls' = calls + 1
           /\ UNCHANGED << seed, M_orig, W_in_orig, rho, sigma, W_in, W_in_dense, W_out,
                           r_T, a, b, eta, epochs, nu, trained >>

(***************************************************************************)
(* AdaptationEngine: intrinsic plasticity (IPESN).                         *)
(***************************************************************************)
\* H(x) = -mu/sd^2 + (x/sd^2) (2 sd^2 + 1 - x^2 + mu x), one unit
H(x) ==
    LET sd2 == Mul(sd, sd)
    IN  Mul(Div(x, sd2), 2 * sd2 + Scale - Mul(x, x) + Mul(mu, x)) - Div(mu, sd2)

\* delta_b = -self.nu * self.H(x[t])
delta_b(xt) == Vec([i \in 1..N |-> -Mul(nu, H(xt[i]))])

delta_a_unscaled(av, db, zt) ==
    Vec([i \in 1..N |-> Div(Scale, av[i]) + Mul(db[i], zt[i])])

\* delta_a = self.nu / self.a + np.dot(np.diag(delta_b), z[t])
delta_a(av, db, zt) ==
    Vec([i \in 1..N |-> Div(nu, av[i]) + Mul(db[i], zt[i])])

\* one pass of the inner loop body: self.b += delta_b; self.a += delta_a
IP_body(acc, db, zt) ==
    [a |-> VecAdd(acc.a, delta_a(acc.a, db, zt)), b |-> VecAdd(acc.b, db), ok |-> TRUE]

\* the nested loops of IP_train; ok turns false when a gain entry is zero
\* at a division (numpy then yields inf, outside the modelled runs)
RECURSIVE IP_loop(_, _, _, _, _)
IP_loop(acc, s, ep, x, z) ==
    IF s >= ep * TLen \/ ~acc.ok THEN acc
    ELSE IF \E i \in 1..N : acc.a[i] = 0
             THEN [acc EXCEPT !.ok = FALSE]
             ELSE IP_loop(IP_body(acc, delta_b(At(x, s % TLen)), At(z, s % TLen)),
                          s + 1, ep, x, z)

IP_fold_once(c, g, A) == DiagMul(g, A)

\* c * np.matmul(np.diag(g), A)
IP_fold(c, g, A) == ScaleMat(c, DiagMul(g, A))

\* where IP_train stops.  np.matrix has no todense(), and M.dot / W_in.dot
\* of an np.matrix returns a 1 x N matrix that np.dot(np.diag(delta_b), z[t])
\* rejects: "loop" raises at the first pass of the loop body, "fold_M" at
\* self.M.todense(), "fold_W_in" at self.W_in.todense() with M already folded
IP_raises(ep, denseM, denseW) ==
    IF (denseM \/ denseW) /\ ep > 0 THEN "loop"
    ELSE IF denseM THEN "fold_M"
    ELSE IF denseW THEN "fold_W_in"
    ELSE "no"

\* z[t] = self.M.dot(x[t]) + self.W_in.dot(self.u(t_points[t]))
IP_z(M1, W1, uu, x) ==
    Vec([k \in 1..TLen |-> VecAdd(MatVec(M1, x[k]), MatVec(W1, uu[k]))])

IP_train(id, ep, rescale) ==
    /\ calls < MaxCalls
    /\ \E M1 \in {IF rescale THEN rho_setter(rho) ELSE M} :
       \E W1 \in {IF rescale THEN sigma_setter(sigma) ELSE W_in} :
       \E dM \in {IF rescale THEN FALSE ELSE M_dense} :
       \E dW \in {IF rescale THEN FALSE ELSE W_in_dense} :
       \E exc \in {IP_raises(ep, dM, dW)} :
       \E x \in {Listen(M1, W1, spline(id), b)} :
       \E res \in {IF exc = "loop" THEN [a |-> a, b |-> b, ok |-> TRUE]
                   ELSE IP_loop([a |-> a, b |-> b, ok |-> TRUE], 0, ep, x,
                                IP_z(M1, W1, spline(id), x))} :
           /\ res.ok
           /\ u' = spline(id)
           /\ a' = res.a
           /\ b' = res.b
           /\ M' = IF exc \in {"no", "fold_W_in"} THEN IP_fold(rho, res.a, M1) ELSE M1
           /\ M_dense' = IF exc \in {"no", "fold_W_in"} THEN TRUE ELSE dM
           /\ W_in' = IF exc = "no" THEN IP_fold(sigma, res.a, W1) ELSE W1
           /\ W_in_dense' = IF exc = "no" THEN TRUE ELSE dW
           /\ last' = Call("IP_train",
                           [NoArgs EXCEPT !.data = id, !.ep = ep, !.flag = rescale],
                           [NoObs EXCEPT !.driver = spline(id), !.traj = x,
                                         !.raised = (exc # "no")])
           /\ calls' = calls + 1
           /\ UNCHANGED << seed, M_orig, W_in_orig, rho, sigma, W_out, r_T,
                           eta, epochs, nu, trained >>

(***************************************************************************)
(* The callers' moves.                                                     *)
(***************************************************************************)
Next ==
    \/ \E r \in RhoValues : set_rho(r)
    \/ \E s \in SigmaValues : set_sigma(s)
    \/ \E id \in DataIds, tl \in ListenLengths : train(id, tl)
    \/ \E id \in DataIds \cup {0} : predict(id)
    \/ \E id \in AdaptData, tl \in AdaptListen, f \in BOOLEAN : hebb_learn(id, tl, f)
    \/ \E id \in AdaptData, tl \in AdaptListen, f \in BOOLEAN, sm \in 0..2 :
           hebb_learn_vector(id, tl, f, sm)
    \/ \E id \in AdaptData, tl \in AdaptListen, f \in BOOLEAN :
           norm_hebb_learn(id, tl, f)
    \/ \E id \in AdaptData, ep \in 0..MaxEpochs, f \in BOOLEAN : IP_train(id, ep, f)

Spec == Init /\ [][Next]_vars


(***************************************************************************)
(* Properties.                                                             *)
(***************************************************************************)
\* comparisons of reals allow for rounding
Tol == Scale \div 200

Near(x, y) == Abs(x - y) <= Tol

Adaptations == {"hebb_learn", "hebb_learn_vector", "norm_hebb_learn", "IP_train"}

\* C1: right after an assignment of rho, in any reachable state, M is rho
\* times the raw adjacency matrix divided by the magnitude of the raw
\* matrix's dominant eigenvalue, and the spectral radius of M is rho.
RhoScalesRaw ==
    last.op = "set_rho" =>
        LET raw == RawAdjacency(seed)
        IN  /\ rho = last.args.val
            /\ \A i \in 1..N, j \in 1..N :
                   Near(M[i][j], RDiv(last.args.val * raw[i][j], MaxEval(raw)))
            /\ Near(MaxEval(M), last.args.val)

\* C1 witness: rho is assigned a new value after an adaptation replaced M
RhoScalesRawWitness ==
    /\ last.op = "set_rho"
    /\ last.args.val # last.pre.rho
    /\ last.pre.M # ScaleMat(last.pre.rho, M_orig)

\* C2 (as stated): for every i in listen_length..T-2 the column of X holding
\* q(trajectory[i+1]) is the column of Y holding data row i, and no column
\* of X is left at its zero initial value.
TrainPairsOneStepAhead ==
    last.op = "train" =>
        /\ \A i \in last.args.t_listen..(TLen - 2) :
               \E c \in 1..Len(last.obs.XIdx) :
                   /\ last.obs.XIdx[c] = i + 1
                   /\ last.obs.YIdx[c] = i
        /\ \A c \in 1..Len(last.obs.XIdx) : last.obs.XIdx[c] # -1

\* C2 (amended): for every i in listen_length..T-2 the column of X holding
\* q(trajectory[i+1]) is column i+1-listen_length, the column of Y holding
\* data row i+1 (same-index pairing); column 0 of X keeps its zero initial
\* value and is paired with data row listen_length.
TrainPairsSameIndex ==
    last.op = "train" =>
        LET tl == last.args.t_listen
        IN  /\ Len(last.obs.X) = TLen - tl
            /\ Len(last.obs.YIdx) = TLen - tl
            /\ \A i \in tl..(TLen - 2) :
                   /\ last.obs.XIdx[i + 2 - tl] = i + 1
                   /\ last.obs.X[i + 2 - tl] = q(At(last.obs.traj, i + 1))
                   /\ last.obs.YIdx[i + 2 - tl] = i + 1
            /\ last.obs.XIdx[1] = -1
            /\ last.obs.X[1] = Vec([k \in 1..(2 * N) |-> 0])
            /\ last.obs.YIdx[1] = tl

\* C2 witness: a train call with a washout, whose features are not zero
TrainPairsWitness ==
    /\ last.op = "train"
    /\ last.args.t_listen >= 1
    /\ Len(last.obs.X) >= 2
    /\ last.obs.X[2] # last.obs.X[1]

\* C3: every train call integrates the listening regime with the interpolant
\* of the data passed to that call.
TrainUsesOwnDriver ==
    last.op = "train" => last.obs.driver = spline(last.args.data)

\* C4: an anti-Hebbian call with eta = 0 and with reset and renormalization
\* switched off (hebb_learn with rescale=False, hebb_learn_vector with
\* reset_M=False and scale_M=0) leaves M as it was before the call.
EtaZeroKeepsM ==
    ( /\ eta = 0
      /\ ~last.args.flag
      /\ \/ last.op = "hebb_learn"
         \/ last.op = "hebb_learn_vector" /\ last.args.mode = 0 )
    => M = last.pre.M

\* C5: IP_train with nu = 0 leaves the gain vector a and the bias vector b
\* as they were before the call, whatever the data and the epochs.
NuZeroKeepsGainAndBias ==
    (last.op = "IP_train" /\ nu = 0) => (a = last.pre.a /\ b = last.pre.b)

\* C5 witness: an IP_train call with nu = 0 that ran its update loop
NuZeroWitness ==
    /\ last.op = "IP_train"
    /\ nu = 0
    /\ last.args.ep >= 1
    /\ \A i \in 1..N : last.pre.a[i] # 0

\* C6: r_T is the last state of the listening trajectory of the most recent
\* train call and no other operation changes it; predict without data
\* starts from r_T, predict with data from the last state of a listening
\* integration run from the zero state over the supplied data.
PostTrainingStatePersists ==
    /\ last.op = "train" => r_T = Last(last.obs.traj)
    /\ last.op # "train" => r_T = last.pre.r_T
    /\ (r_T = None) <=> (trained = 0)
    /\ (last.op = "predict" /\ last.args.data = 0) =>
           (last.obs.r0 = r_T /\ r_T # None)
    /\ (last.op = "predict" /\ last.args.data # 0) =>
           LET x == Listen(last.pre.M, last.pre.W_in, spline(last.args.data),
                           last.pre.b)
           IN  /\ x[1] = ZeroVec
               /\ last.obs.r0 = Last(x)

\* C6 witness: predict without data after a training whose final state is
\* not the zero state
PostTrainingStateWitness ==
    /\ last.op = "predict"
    /\ last.args.data = 0
    /\ ~last.obs.raised
    /\ last.obs.r0 = r_T
    /\ r_T # ZeroVec

\* C7: W_out is absent exactly when no train call has completed, and only a
\* train call changes it.
ReadoutOnlyFromTrain ==
    /\ (W_out = None) <=> (trained = 0)
    /\ last.op # "train" => W_out = last.pre.W_out

\* C7 witness: an adaptation call made after training
ReadoutOnlyFromTrainWitness ==
    /\ trained > 0
    /\ last.op \in Adaptations
    /\ W_out # None

RenormPositions(log) == {p \in 1..Len(log) : log[p].k = "renorm"}

UpdatePositions(log) == {p \in 1..Len(log) : log[p].k = "update"}

NormDividesColumns ==
    last.op = "norm_hebb_learn" =>
        \A s \in 1..Len(last.obs.steps) :
            LET st    == last.obs.steps[s]
                norms == ColNorms(st.M_hat)
            IN  \A i \in 1..N, j \in 1..N :
                    Near(st.M[i][j], Div(st.M_hat[i][j], norms[j]))

\* C10: after IP_train with rescale=True, M = rho^2 diag(a) M_orig and
\* W_in = sigma^2 diag(a) W_in_orig with a the gains at the end of the call;
\* with a unchanged (all ones) the call moves M off rho * M_orig unless
\* rho = 1, and W_in off sigma * W_in_orig unless sigma = 1.
IPFoldScalesTwice ==
    (last.op = "IP_train" /\ last.args.flag) =>
        /\ \A i \in 1..N, j \in 1..N :
               Near(M[i][j], Mul(Mul(rho, rho), Mul(a[i], M_orig[i][j])))
        /\ \A i \in 1..N, j \in 1..d :
               Near(W_in[i][j], Mul(Mul(sigma, sigma), Mul(a[i], W_in_orig[i][j])))
        /\ a = Ones =>
               /\ (M = ScaleMat(rho, M_orig)) <=> (rho = Scale)
               /\ (W_in = ScaleMat(sigma, W_in_orig)) <=> (sigma = Scale)

\* C10 witness: a rescaling IP_train call that leaves the gains at one and
\* still changes M
IPFoldWitness ==
    /\ last.op = "IP_train"
    /\ last.args.flag
    /\ a = Ones
    /\ rho # Scale
    /\ last.pre.M = ScaleMat(rho, M_orig)
    /\ M # last.pre.M

=============================================================================
